---- MODULE Spec2Model ----
(***************************************************************************)
(* A model of the doctor health-check core: Doctor.Investigate, the        *)
(* per-check runner (healthCheckStatus.start) with its handler goroutines, *)
(* healthStatus.update, Doctor.Healthy, Doctor.Handler and                 *)
(* healthChecks.failing, with the three tiers of locks.                    *)
(*                                                                         *)
(* Check names are integers (only their equality matters).  The uint64     *)
(* bitmask healthStatus.status is the set of its 1 bits, a subset of       *)
(* 0..63.  An error value is its text; the nil error is "nil".             *)
(***************************************************************************)
EXTENDS Integers, Sequences, FiniteSets, TLC

VARIABLES
    items,      \* health.checks.items: check name -> index into cs
    cs,         \* the healthCheckStatus objects, in order of creation
    status,     \* health.status.status
    checksMu,   \* health.checks (RWMutex): "free", "w" (Investigate), "r" (failing)
    statusMu,   \* health.status (RWMutex): "free" or "r" (Handler); writes are one step
    hcMu,       \* per check (RWMutex): "free", "rec" (record step), "http" (failing)
    inv,        \* per name: the Investigate call for it
    run,        \* per check: where its runner (start) is
    gor,        \* per check: its handler goroutines that may still act, oldest first (late:
                \* a goroutine of a later cycle has recorded; kept by SpecOrder only)
    ctxDone,    \* the context passed to Investigate is cancelled
    http,       \* the Handler call
    recorded,   \* per check: the result most recently recorded ("none" before the first)
    conns       \* the connections the Listener has accepted, oldest first

vars == <<items, cs, status, checksMu, statusMu, hcMu, inv, run, gor, ctxDone, http, recorded, conns>>

----------------------------------------------------------------------------
(* Bounds *)

\* Handler goroutines that are alive at the same time and may still act.
MaxInflight == 2
\* The Investigate calls of SpecCap.
CapCalls == 65

\* The Investigate calls of SpecDup.
DupCalls == 3

\* The connections the Listener accepts.
MaxConns == 2

(* Program constants *)

\* Investigate: if pos < 63
Threshold == 63
\* Investigate: "health-check treshold (64) exceeded"
MessageLimit == 64
\* healthStatus.status is a uint64
Width == 64

----------------------------------------------------------------------------
(* Handlers and aspects.  A handler is user code: it is modelled by what   *)
(* one invocation of it may do.                                            *)

\* The errors an invocation may return.
Results(h) ==
    CASE h = "ok"   -> {"nil"}
      [] h = "boom" -> {"boom"}
      [] h = "hang" -> {}
      [] OTHER      -> {"nil", "boom"}

\* The invocation may still be running when its timeout expires.
Overruns(h) == h \in {"hang", "any"}

\* The invocation may never return.
Hangs(h) == h \in {"hang", "any"}

\* hc.Aspect(hc.Check, err), for the aspects of the model; "none" is a nil Aspect.
ApplyAspectSkipped(a, err) == err
ApplyAspect(a, err) ==
    CASE a = "none" -> err
      [] a = "mask" -> "nil"
      [] a = "fail" -> IF err = "nil" THEN "aspect" ELSE err
      [] OTHER      -> err

\* The invocation may panic.
Panics(h) == h = "panicky"

----------------------------------------------------------------------------
(* healthStatus.update and the reads of the bitmask *)

\* 1 << pos on a uint64: no bit is left when pos >= 64.
BitShifted(pos) == IF pos + 1 < Width THEN {pos + 1} ELSE {}
Bit(pos) == IF pos < Width THEN {pos} ELSE {}

\* The mutator of update: c.status |= (1 << pos), or c.status &= ^(1 << pos).
updateInverted(st, pos, value) == IF value THEN st \cup Bit(pos) ELSE st \ Bit(pos)
updateNoComplement(st, pos, value) == IF ~value THEN st \cup Bit(pos) ELSE st \cap Bit(pos)
update(st, pos, value) == IF ~value THEN st \cup Bit(pos) ELSE st \ Bit(pos)

\* Doctor.Healthy: status == 0, read under the read lock.
Healthy == status = {}

\* len(health.checks.items)
LenItems(its) == Cardinality(DOMAIN its)

\* health.checks.items[name] = check
Put(its, name, id) == [x \in (DOMAIN its) \cup {name} |-> IF x = name THEN id ELSE its[x]]

\* The ids of the check states.
Ids == 1..Len(cs)

\* s without its k-th element.
RemoveAt(s, k) == [i \in 1..(Len(s) - 1) |-> IF i < k THEN s[i] ELSE s[i + 1]]

----------------------------------------------------------------------------
(* Doctor.Investigate *)

\* health.checks.Lock() can be taken.
CanLockNever(mu) == TRUE
CanLock(mu) == mu = "free"

\* Lock, and pos := uint(len(health.checks.items)).
InvestigateLock(c) ==
    /\ inv[c.name].pc = "idle"
    /\ CanLock(checksMu)
    /\ checksMu' = "w"
    /\ inv' = [inv EXCEPT ![c.name] = [pc |-> "locked", pos |-> LenItems(items), def |-> c]]
    /\ UNCHANGED <<items, cs, status, statusMu, hcMu, run, gor, ctxDone, http, recorded, conns>>

\* The healthCheckStatus that Investigate builds.
NewCheckNoMsg(c, pos) ==
    [name |-> c.name, handler |-> c.handler, aspect |-> c.aspect,
     healthy |-> FALSE, msg |-> "", pos |-> pos]
NewCheck(c, pos) ==
    [name |-> c.name, handler |-> c.handler, aspect |-> c.aspect,
     healthy |-> FALSE, msg |-> "[n/a]", pos |-> pos]

\* pos < 63: the entry, its bit, its runner; Unlock; return nil.
InvestigateRegister(n) ==
    /\ inv[n].pc = "locked"
    /\ inv[n].pos < Threshold
    /\ statusMu = "free"
    /\ cs' = Append(cs, NewCheck(inv[n].def, inv[n].pos))
    /\ items' = Put(items, n, Len(cs) + 1)
    /\ status' = update(status, inv[n].pos, FALSE)
    /\ run' = Append(run, "start")
    /\ gor' = Append(gor, <<>>)
    /\ hcMu' = Append(hcMu, "free")
    /\ recorded' = Append(recorded, "none")
    /\ checksMu' = "free"
    /\ inv' = [inv EXCEPT ![n].pc = "ok"]
    /\ UNCHANGED <<statusMu, ctxDone, http, conns>>

\* Otherwise: Unlock; return the threshold error.
InvestigateRejectLate(n) ==
    /\ inv[n].pc = "locked"
    /\ ~(inv[n].pos < Threshold)
    /\ status' = update(status, inv[n].pos, FALSE)
    /\ checksMu' = "free"
    /\ inv' = [inv EXCEPT ![n].pc = "err"]
    /\ UNCHANGED <<items, cs, statusMu, hcMu, run, gor, ctxDone, http, recorded, conns>>
InvestigateReject(n) ==
    /\ inv[n].pc = "locked"
    /\ ~(inv[n].pos < Threshold)
    /\ checksMu' = "free"
    /\ inv' = [inv EXCEPT ![n].pc = "err"]
    /\ UNCHANGED <<items, cs, status, statusMu, hcMu, run, gor, ctxDone, http, recorded, conns>>

\* Investigate has returned nil to its caller, who may call it with the same
\* name again.
InvestigateAgain(n) ==
    /\ inv[n].pc = "ok"
    /\ inv' = [inv EXCEPT ![n].pc = "idle"]
    /\ UNCHANGED <<items, cs, status, checksMu, statusMu, hcMu, run, gor, ctxDone, http, recorded, conns>>

----------------------------------------------------------------------------
(* healthCheckStatus.start: the runner *)

RECURSIVE SumLen(_, _)
SumLen(s, i) == IF i > Len(s) THEN 0 ELSE Len(s[i]) + SumLen(s, i + 1)

\* The handler goroutines that are alive and may still act.
Live == SumLen(gor, 1)

\* check(): subctx with the timeout, the handler goroutine; then <-subctx.Done().
\* room bounds the goroutines of the model.
StartCycle(id, room) ==
    /\ run[id] = "start"
    /\ room
    /\ gor' = [gor EXCEPT ![id] = Append(@, [pc |-> "call", err |-> "nil", cur |-> TRUE, late |-> FALSE])]
    /\ run' = [run EXCEPT ![id] = "wait"]
    /\ UNCHANGED <<items, cs, status, checksMu, statusMu, hcMu, inv, ctxDone, http, recorded, conns>>

\* The goroutine of the cycle the runner waits for, if it is still alive.
Current(id) == {k \in 1..Len(gor[id]) : gor[id][k].cur}

\* The goroutines of check id with the current one no longer waited for.
Abandon(id) == [k \in 1..Len(gor[id]) |-> [gor[id][k] EXCEPT !.cur = FALSE]]

\* subctx.Done() by the deferred cancel() of the goroutine, which has finished.
WaitDone(id) ==
    /\ run[id] = "wait"
    /\ Current(id) = {}
    /\ run' = [run EXCEPT ![id] = "sleep"]
    /\ UNCHANGED <<items, cs, status, checksMu, statusMu, hcMu, inv, gor, ctxDone, http, recorded, conns>>

\* subctx.Done() by the timeout, the handler having returned: the goroutine goes on.
WaitTimeoutRecording(id) ==
    /\ run[id] = "wait"
    /\ \E k \in Current(id) : gor[id][k].pc # "call"
    /\ gor' = [gor EXCEPT ![id] = Abandon(id)]
    /\ run' = [run EXCEPT ![id] = "sleep"]
    /\ UNCHANGED <<items, cs, status, checksMu, statusMu, hcMu, inv, ctxDone, http, recorded, conns>>

\* subctx.Done() by the timeout, the handler still running and returning later.
WaitTimeoutLate(id) ==
    /\ run[id] = "wait"
    /\ \E k \in Current(id) : gor[id][k].pc = "call"
    /\ Overruns(cs[id].handler)
    /\ Results(cs[id].handler) # {}
    /\ gor' = [gor EXCEPT ![id] = Abandon(id)]
    /\ run' = [run EXCEPT ![id] = "sleep"]
    /\ UNCHANGED <<items, cs, status, checksMu, statusMu, hcMu, inv, ctxDone, http, recorded, conns>>

\* subctx.Done() by the timeout, the handler still running and never returning:
\* its goroutine is left behind and acts no more.
WaitTimeoutHung(id) ==
    /\ run[id] = "wait"
    /\ \E k \in Current(id) :
          /\ gor[id][k].pc = "call"
          /\ gor' = [gor EXCEPT ![id] = RemoveAt(@, k)]
    /\ Hangs(cs[id].handler)
    /\ run' = [run EXCEPT ![id] = "sleep"]
    /\ UNCHANGED <<items, cs, status, checksMu, statusMu, hcMu, inv, ctxDone, http, recorded, conns>>

\* subctx.Done() by the cancellation of ctx, its parent.
WaitCancelled(id) ==
    /\ run[id] = "wait"
    /\ ctxDone
    /\ Current(id) # {}
    /\ gor' = [gor EXCEPT ![id] = Abandon(id)]
    /\ run' = [run EXCEPT ![id] = "sleep"]
    /\ UNCHANGED <<items, cs, status, checksMu, statusMu, hcMu, inv, ctxDone, http, recorded, conns>>

\* select: case <-time.After(hc.Interval): continue
SleepTick(id) ==
    /\ run[id] = "sleep"
    /\ run' = [run EXCEPT ![id] = "start"]
    /\ UNCHANGED <<items, cs, status, checksMu, statusMu, hcMu, inv, gor, ctxDone, http, recorded, conns>>

\* select: case <-ctx.Done(): return
SleepCancel(id) ==
    /\ run[id] = "sleep"
    /\ ctxDone
    /\ run' = [run EXCEPT ![id] = "exit"]
    /\ UNCHANGED <<items, cs, status, checksMu, statusMu, hcMu, inv, gor, ctxDone, http, recorded, conns>>

\* The caller cancels ctx.
Cancel ==
    /\ ~ctxDone
    /\ ctxDone' = TRUE
    /\ UNCHANGED <<items, cs, status, checksMu, statusMu, hcMu, inv, run, gor, http, recorded, conns>>

----------------------------------------------------------------------------
(* healthCheckStatus.start: the handler goroutine of one cycle *)

\* err := hc.Handler(subctx), then the Aspect if there is one.
HandlerReturn(id) ==
    \E k \in 1..Len(gor[id]) : \E r \in Results(cs[id].handler) :
        /\ gor[id][k].pc = "call"
        /\ gor' = [gor EXCEPT ![id][k] =
                      [@ EXCEPT !.pc = "lock", !.err = ApplyAspect(cs[id].aspect, r)]]
        /\ UNCHANGED <<items, cs, status, checksMu, statusMu, hcMu, inv, run, ctxDone, http, recorded, conns>>

\* hc.Handler(subctx) panics.  Nothing on the goroutine's stack recovers (its
\* only deferred call is cancel()), so the Go runtime ends the program: every
\* goroutine of it is gone, callers of Investigate and Handler included.
HandlerPanic(id) ==
    \E k \in 1..Len(gor[id]) :
        /\ gor[id][k].pc = "call"
        /\ Panics(cs[id].handler)
        /\ run' = [i \in 1..Len(run) |-> "dead"]
        /\ gor' = [i \in 1..Len(gor) |-> <<>>]
        /\ inv' = [n \in DOMAIN inv |-> [inv[n] EXCEPT !.pc = "dead"]]
        /\ http' = [http EXCEPT !.pc = "dead"]
        /\ UNCHANGED <<items, cs, status, checksMu, statusMu, hcMu, ctxDone, recorded, conns>>

\* hc.Lock()
RecordLock(id) ==
    \E k \in 1..Len(gor[id]) :
        /\ gor[id][k].pc = "lock"
        /\ hcMu[id] = "free"
        /\ hcMu' = [hcMu EXCEPT ![id] = "rec"]
        /\ gor' = [gor EXCEPT ![id][k].pc = "update"]
        /\ UNCHANGED <<items, cs, status, checksMu, statusMu, inv, run, ctxDone, http, recorded, conns>>

\* status.update(hc.pos, err == nil)
RecordUpdate(id) ==
    \E k \in 1..Len(gor[id]) :
        /\ gor[id][k].pc = "update"
        /\ statusMu = "free"
        /\ status' = update(status, cs[id].pos, gor[id][k].err = "nil")
        /\ recorded' = [recorded EXCEPT ![id] = IF gor[id][k].err = "nil" THEN "nil" ELSE "err"]
        /\ gor' = [gor EXCEPT ![id][k].pc = "fields"]
        /\ UNCHANGED <<items, cs, checksMu, statusMu, hcMu, inv, run, ctxDone, http, conns>>

\* The goroutines of a check when its k-th one has called status.update: the
\* older ones are marked as overtaken by a later cycle.
Overtake(s, k) ==
    [i \in 1..Len(s) |->
        IF i = k THEN [s[i] EXCEPT !.pc = "fields"]
        ELSE IF i < k THEN [s[i] EXCEPT !.late = TRUE]
        ELSE s[i]]

\* RecordUpdate, keeping track of the order of the cycles.
RecordUpdateOrdered(id) ==
    \E k \in 1..Len(gor[id]) :
        /\ gor[id][k].pc = "update"
        /\ statusMu = "free"
        /\ status' = update(status, cs[id].pos, gor[id][k].err = "nil")
        /\ recorded' = [recorded EXCEPT ![id] = IF gor[id][k].err = "nil" THEN "nil" ELSE "err"]
        /\ gor' = [gor EXCEPT ![id] = Overtake(@, k)]
        /\ UNCHANGED <<items, cs, checksMu, statusMu, hcMu, inv, run, ctxDone, http, conns>>

\* hc.healthy and hc.msg as the code sets them for err.
SetFieldsKeepMsg(c, err) == [c EXCEPT !.healthy = (err = "nil"), !.msg = IF err = "nil" THEN "" ELSE @]
SetFields(c, err) == [c EXCEPT !.healthy = (err = "nil"), !.msg = IF err = "nil" THEN "" ELSE err]

\* hc.healthy = ..., hc.msg = ...; the deferred hc.Unlock() and cancel().
RecordFields(id) ==
    \E k \in 1..Len(gor[id]) :
        /\ gor[id][k].pc = "fields"
        /\ cs' = [cs EXCEPT ![id] = SetFields(@, gor[id][k].err)]
        /\ hcMu' = [hcMu EXCEPT ![id] = "free"]
        /\ gor' = [gor EXCEPT ![id] = RemoveAt(@, k)]
        /\ UNCHANGED <<items, status, checksMu, statusMu, inv, run, ctxDone, http, recorded, conns>>

----------------------------------------------------------------------------
(* Doctor.Handler and healthChecks.failing *)

Idle == [pc |-> "idle", todo |-> {}, errs |-> <<>>]

\* health.status.RLock()
HandlerRLock ==
    /\ http.pc = "idle"
    /\ statusMu = "free"
    /\ statusMu' = "r"
    /\ http' = [http EXCEPT !.pc = "rlock"]
    /\ UNCHANGED <<items, cs, status, checksMu, hcMu, inv, run, gor, ctxDone, recorded, conns>>

\* status == 0: "up", 200; the deferred RUnlock.
HandlerUp ==
    /\ http.pc = "rlock"
    /\ status = {}
    /\ statusMu' = "free"
    /\ http' = Idle
    /\ UNCHANGED <<items, cs, status, checksMu, hcMu, inv, run, gor, ctxDone, recorded, conns>>

\* Otherwise "down", 503 and failing(): checks.RLock(), errors := make(map).
HandlerDown ==
    /\ http.pc = "rlock"
    /\ status # {}
    /\ checksMu = "free"
    /\ checksMu' = "r"
    /\ http' = [pc |-> "walk", todo |-> DOMAIN items, errs |-> <<>>]
    /\ UNCHANGED <<items, cs, status, statusMu, hcMu, inv, run, gor, ctxDone, recorded, conns>>

\* if len(hc.msg) > 0 { errors[name] = hc.msg }
Collect(errs, name, msg) == IF Len(msg) > 0 THEN Put(errs, name, msg) ELSE errs

\* One turn of the loop of failing: hc.Lock(), then the entry of the check.  The
\* map is ranged over in any order.
FailingVisitUnlocked ==
    \E n \in http.todo :
        /\ http' = [http EXCEPT !.todo = @ \ {n},
                                !.errs = Collect(@, n, cs[items[n]].msg)]
        /\ UNCHANGED <<items, cs, status, checksMu, statusMu, hcMu, inv, run, gor, ctxDone, recorded, conns>>
FailingVisit ==
    \E n \in http.todo :
        /\ hcMu[items[n]] = "free"
        /\ hcMu' = [hcMu EXCEPT ![items[n]] = "http"]
        /\ http' = [http EXCEPT !.todo = @ \ {n},
                                !.errs = Collect(@, n, cs[items[n]].msg)]
        /\ UNCHANGED <<items, cs, status, checksMu, statusMu, inv, run, gor, ctxDone, recorded, conns>>

\* failing returns: the deferred hc.Unlock()s and RUnlock; then Handler's RUnlock.
FailingReturn ==
    /\ http.pc = "walk"
    /\ http.todo = {}
    /\ hcMu' = [i \in 1..Len(hcMu) |-> IF hcMu[i] = "http" THEN "free" ELSE hcMu[i]]
    /\ checksMu' = "free"
    /\ statusMu' = "free"
    /\ http' = Idle
    /\ UNCHANGED <<items, cs, status, inv, run, gor, ctxDone, recorded, conns>>

----------------------------------------------------------------------------
(* Listener.Accept *)

\* The Accept call has a connection from the inner listener and has not returned.
Pending == {i \in 1..Len(conns) : conns[i] = "accepted"}

\* c, err = ln.Listener.Accept() with err == nil.  room bounds the connections
\* of the model.
AcceptInner(room) ==
    /\ Pending = {}
    /\ room
    /\ conns' = Append(conns, "accepted")
    /\ UNCHANGED <<items, cs, status, checksMu, statusMu, hcMu, inv, run, gor, ctxDone, http, recorded>>

\* err != nil: return nil, err.
AcceptError ==
    /\ Pending = {}
    /\ UNCHANGED vars

\* What Accept does to the new connection, given what Healthy() returned.
AcceptResultInverted(healthy) == IF healthy THEN "closed" ELSE "open"
AcceptResult(healthy) == IF ~healthy THEN "closed" ELSE "open"

\* if !ln.health.Healthy() { c.Close() }; return c, nil.  Healthy reads the
\* status under the read lock, which other readers may hold too.
AcceptReturn ==
    \E i \in Pending :
        /\ statusMu \in {"free", "r"}
        /\ conns' = [conns EXCEPT ![i] = AcceptResult(Healthy)]
        /\ UNCHANGED <<items, cs, status, checksMu, statusMu, hcMu, inv, run, gor, ctxDone, http, recorded>>

----------------------------------------------------------------------------
(* Specifications *)

\* NewDoctor, and callers that are about to register the definitions of U.
InitOf(U) ==
    /\ items = <<>>
    /\ cs = <<>>
    /\ status = {}
    /\ checksMu = "free"
    /\ statusMu = "free"
    /\ hcMu = <<>>
    /\ inv = [n \in {c.name : c \in U} |-> [pc |-> "idle", pos |-> 0, def |-> CHOOSE c \in U : c.name = n]]
    /\ run = <<>>
    /\ gor = <<>>
    /\ ctxDone = FALSE
    /\ http = Idle
    /\ recorded = <<>>
    /\ conns = <<>>

\* The definitions registered in Spec: two distinct names, each with one of these handlers.
Universe == {[name |-> n, handler |-> h, aspect |-> "none"] : n \in {1, 2}, h \in {"ok", "boom", "any"}}

Init == InitOf(Universe)

Next ==
    \/ \E c \in Universe : InvestigateLock(c)
    \/ \E n \in DOMAIN inv : InvestigateRegister(n)
    \/ \E id \in Ids : StartCycle(id, Live < MaxInflight)
    \/ \E id \in Ids : WaitDone(id)
    \/ \E id \in Ids : WaitTimeoutRecording(id)
    \/ \E id \in Ids : WaitTimeoutLate(id)
    \/ \E id \in Ids : WaitTimeoutHung(id)
    \/ \E id \in Ids : WaitCancelled(id)
    \/ \E id \in Ids : SleepTick(id)
    \/ \E id \in Ids : SleepCancel(id)
    \/ \E id \in Ids : HandlerReturn(id)
    \/ \E id \in Ids : RecordLock(id)
    \/ \E id \in Ids : RecordUpdate(id)
    \/ \E id \in Ids : RecordFields(id)
    \/ Cancel
    \/ HandlerRLock
    \/ HandlerUp
    \/ HandlerDown
    \/ FailingVisit
    \/ FailingReturn

Spec == Init /\ [][Next]_vars

----------------------------------------------------------------------------
(* SpecCap: one caller registers CapCalls distinct names, one call after the *)
(* other (the k-th call registers name k), every handler returning nil in    *)
(* time, while the runner of the check registered first is scheduled.        *)

CapUniverse == {[name |-> n, handler |-> "ok", aspect |-> "none"] : n \in 1..CapCalls}

\* The calls that have started.
Called == {n \in DOMAIN inv : inv[n].pc # "idle"}

\* The check registered first, once it is there.
First == Ids \cap {1}

InitCap == InitOf(CapUniverse)

NextCap ==
    \/ \E c \in CapUniverse : c.name = Cardinality(Called) + 1 /\ InvestigateLock(c)
    \/ \E n \in DOMAIN inv : InvestigateRegister(n)
    \/ \E n \in DOMAIN inv : InvestigateReject(n)
    \/ \E id \in First : StartCycle(id, Live < MaxInflight)
    \/ \E id \in First : WaitDone(id)
    \/ \E id \in First : WaitTimeoutRecording(id)
    \/ \E id \in First : SleepTick(id)
    \/ \E id \in First : HandlerReturn(id)
    \/ \E id \in First : RecordLock(id)
    \/ \E id \in First : RecordUpdate(id)
    \/ \E id \in First : RecordFields(id)

SpecCap == InitCap /\ [][NextCap]_vars

----------------------------------------------------------------------------
(* LiveSpec: two checks, the handler of one never returns and the handler of *)
(* the other always returns nil in time; ctx is not cancelled.  Every        *)
(* goroutine of the program is scheduled fairly, a goroutine that waits for  *)
(* a lock gets it if the lock is free again and again, a handler that        *)
(* returns does so, and every timer fires.  Nothing obliges a caller to call *)
(* Handler.                                                                  *)

LiveUniverse == {[name |-> 1, handler |-> "hang", aspect |-> "none"],
                 [name |-> 2, handler |-> "ok", aspect |-> "none"]}

InitLive == InitOf(LiveUniverse)

\* The steps of the runner and of the handler goroutines of check id.
RunnerStep(id) ==
    \/ StartCycle(id, Len(gor[id]) < MaxInflight)
    \/ WaitDone(id)
    \/ WaitTimeoutRecording(id)
    \/ WaitTimeoutHung(id)
    \/ SleepTick(id)
    \/ HandlerReturn(id)
    \/ RecordFields(id)

NextLive ==
    \/ \E c \in LiveUniverse : InvestigateLock(c)
    \/ \E n \in DOMAIN inv : InvestigateRegister(n)
    \/ \E id \in Ids : RunnerStep(id)
    \/ \E id \in Ids : RecordLock(id)
    \/ \E id \in Ids : RecordUpdate(id)
    \/ HandlerRLock
    \/ HandlerUp
    \/ HandlerDown
    \/ FailingVisit
    \/ FailingReturn

Fairness ==
    /\ \A c \in LiveUniverse : SF_vars(InvestigateLock(c))
    /\ \A n \in {1, 2} : SF_vars(InvestigateRegister(n))
    /\ \A id \in {1, 2} : WF_vars(id \in Ids /\ RunnerStep(id))
    /\ \A id \in {1, 2} : SF_vars(id \in Ids /\ RecordLock(id))
    /\ \A id \in {1, 2} : SF_vars(id \in Ids /\ RecordUpdate(id))
    /\ WF_vars(HandlerUp)
    /\ SF_vars(HandlerDown)
    /\ SF_vars(FailingVisit)
    /\ WF_vars(FailingReturn)

LiveSpec == InitLive /\ [][NextLive]_vars /\ Fairness

\* LiveSpec with no call of Handler.
NextQuiet ==
    \/ \E c \in LiveUniverse : InvestigateLock(c)
    \/ \E n \in DOMAIN inv : InvestigateRegister(n)
    \/ \E id \in Ids : RunnerStep(id)
    \/ \E id \in Ids : RecordLock(id)
    \/ \E id \in Ids : RecordUpdate(id)

QuietSpec == InitLive /\ [][NextQuiet]_vars /\ Fairness


\* SpecAspect: two checks, each with a handler of a fixed result and no Aspect,
\* an Aspect that turns every error into nil ("mask"), or one that turns nil
\* into an error ("fail").
AspectKinds == {<<"boom", "mask">>, <<"ok", "fail">>, <<"boom", "fail">>, <<"ok", "none">>, <<"boom", "none">>}

AspectUniverse == {[name |-> n, handler |-> k[1], aspect |-> k[2]] : n \in {1, 2}, k \in AspectKinds}

InitAspect == InitOf(AspectUniverse)

NextAspect ==
    \/ \E c \in AspectUniverse : InvestigateLock(c)
    \/ \E n \in DOMAIN inv : InvestigateRegister(n)
    \/ \E id \in Ids : StartCycle(id, Live < MaxInflight)
    \/ \E id \in Ids : WaitDone(id)
    \/ \E id \in Ids : WaitTimeoutRecording(id)
    \/ \E id \in Ids : SleepTick(id)
    \/ \E id \in Ids : HandlerReturn(id)
    \/ \E id \in Ids : RecordLock(id)
    \/ \E id \in Ids : RecordUpdate(id)
    \/ \E id \in Ids : RecordFields(id)
    \/ HandlerRLock
    \/ HandlerUp
    \/ HandlerDown
    \/ FailingVisit
    \/ FailingReturn

SpecAspect == InitAspect /\ [][NextAspect]_vars


\* SpecPanic: a check whose handler may return nil, return an error or panic,
\* next to a check whose handler always returns nil.
PanicUniverse ==
    {[name |-> 1, handler |-> "panicky", aspect |-> "none"],
     [name |-> 2, handler |-> "ok", aspect |-> "none"]}

InitPanic == InitOf(PanicUniverse)

NextPanic ==
    \/ \E c \in PanicUniverse : InvestigateLock(c)
    \/ \E n \in DOMAIN inv : InvestigateRegister(n)
    \/ \E id \in Ids : StartCycle(id, Live < MaxInflight)
    \/ \E id \in Ids : WaitDone(id)
    \/ \E id \in Ids : WaitTimeoutRecording(id)
    \/ \E id \in Ids : SleepTick(id)
    \/ \E id \in Ids : HandlerReturn(id)
    \/ \E id \in Ids : HandlerPanic(id)
    \/ \E id \in Ids : RecordLock(id)
    \/ \E id \in Ids : RecordUpdate(id)
    \/ \E id \in Ids : RecordFields(id)
    \/ HandlerRLock
    \/ HandlerUp
    \/ HandlerDown
    \/ FailingVisit
    \/ FailingReturn

SpecPanic == InitPanic /\ [][NextPanic]_vars


\* SpecDup: Investigate is called up to DupCalls times with two names, so that a
\* name is registered more than once.
DupUniverse == {[name |-> n, handler |-> h, aspect |-> "none"] : n \in {1, 2}, h \in {"ok", "boom"}}

\* The Investigate calls made so far that have not failed.
Calls == Len(cs) + Cardinality({n \in DOMAIN inv : inv[n].pc = "locked"})

InitDup == InitOf(DupUniverse)

NextDup ==
    \/ \E c \in DupUniverse : Calls < DupCalls /\ InvestigateLock(c)
    \/ \E n \in DOMAIN inv : InvestigateRegister(n)
    \/ \E n \in DOMAIN inv : InvestigateAgain(n)
    \/ \E id \in Ids : StartCycle(id, Live < MaxInflight)
    \/ \E id \in Ids : WaitDone(id)
    \/ \E id \in Ids : WaitTimeoutRecording(id)
    \/ \E id \in Ids : SleepTick(id)
    \/ \E id \in Ids : HandlerReturn(id)
    \/ \E id \in Ids : RecordLock(id)
    \/ \E id \in Ids : RecordUpdate(id)
    \/ \E id \in Ids : RecordFields(id)

SpecDup == InitDup /\ [][NextDup]_vars


\* SpecOrder: one check whose handler may return nil or an error, in time, late
\* or never, with the order of its cycles tracked.
OrderUniverse == {[name |-> 1, handler |-> "any", aspect |-> "none"]}

InitOrder == InitOf(OrderUniverse)

NextOrder ==
    \/ \E c \in OrderUniverse : InvestigateLock(c)
    \/ \E n \in DOMAIN inv : InvestigateRegister(n)
    \/ \E id \in Ids : StartCycle(id, Live < MaxInflight)
    \/ \E id \in Ids : WaitDone(id)
    \/ \E id \in Ids : WaitTimeoutRecording(id)
    \/ \E id \in Ids : WaitTimeoutLate(id)
    \/ \E id \in Ids : WaitTimeoutHung(id)
    \/ \E id \in Ids : SleepTick(id)
    \/ \E id \in Ids : HandlerReturn(id)
    \/ \E id \in Ids : RecordLock(id)
    \/ \E id \in Ids : RecordUpdateOrdered(id)
    \/ \E id \in Ids : RecordFields(id)
    \/ HandlerRLock
    \/ HandlerUp
    \/ HandlerDown
    \/ FailingVisit
    \/ FailingReturn

SpecOrder == InitOrder /\ [][NextOrder]_vars


\* SpecListen: a Listener in front of a Doctor with one check whose handler may
\* return nil or an error, in time, late or never.
ListenUniverse == {[name |-> 1, handler |-> "any", aspect |-> "none"]}

InitListen == InitOf(ListenUniverse)

NextListen ==
    \/ \E c \in ListenUniverse : InvestigateLock(c)
    \/ \E n \in DOMAIN inv : InvestigateRegister(n)
    \/ \E id \in Ids : StartCycle(id, Live < MaxInflight)
    \/ \E id \in Ids : WaitDone(id)
    \/ \E id \in Ids : WaitTimeoutRecording(id)
    \/ \E id \in Ids : WaitTimeoutLate(id)
    \/ \E id \in Ids : WaitTimeoutHung(id)
    \/ \E id \in Ids : SleepTick(id)
    \/ \E id \in Ids : HandlerReturn(id)
    \/ \E id \in Ids : RecordLock(id)
    \/ \E id \in Ids : RecordUpdate(id)
    \/ \E id \in Ids : RecordFields(id)
    \/ HandlerRLock
    \/ HandlerUp
    \/ HandlerDown
    \/ FailingVisit
    \/ FailingReturn
    \/ AcceptInner(Len(conns) < MaxConns)
    \/ AcceptError
    \/ AcceptReturn

SpecListen == InitListen /\ [][NextListen]_vars

----------------------------------------------------------------------------
(* The claims *)

\* Every registered check has a handler that always returns nil in time, and no Aspect.
AllOk == Ids # {} /\ \A id \in Ids : cs[id].handler = "ok" /\ cs[id].aspect = "none"

SingleBoom == Len(cs) = 1 /\ cs[1].handler = "boom" /\ cs[1].aspect = "none"

\* C2: with a single registered check whose handler always returns the error
\* "boom": once a result is recorded Healthy() is false; once the first record
\* step is complete the check is unhealthy with the message "boom"; and a
\* failing() that returns then returns exactly {name: "boom"}.
C2_BoomReported ==
    (SingleBoom /\ recorded[1] # "none") =>
        /\ ~Healthy
        /\ hcMu[1] # "rec" => (~cs[1].healthy /\ cs[1].msg = "boom")
        /\ (http.pc = "walk" /\ http.todo = {}) => http.errs = (cs[1].name :> "boom")

C2_Witness ==
    /\ SingleBoom
    /\ recorded[1] = "err"
    /\ http.pc = "walk" /\ http.todo = {}
    /\ http.errs = (cs[1].name :> "boom")
    /\ run[1] = "wait"

\* The check is marked failing.
MarkedFailing(id) == cs[id].pos \in status /\ ~cs[id].healthy /\ cs[id].msg # ""

\* C3 (as claimed): whenever the timeout of a cycle expires and the handler has
\* not returned, the check is marked failing at that moment.
C3_TimeoutMarksFailing ==
    [][\A id \in Ids : (WaitTimeoutLate(id) \/ WaitTimeoutHung(id)) => MarkedFailing(id)']_vars

\* The runner of check id is at pc.
RunnerAt(id, pc) == id \in Ids /\ run[id] = pc

\* A record step of check id is at its end.
Recording(id) == id \in Ids /\ \E k \in 1..Len(gor[id]) : gor[id][k].pc = "fields"

\* Both checks are registered, and a is the one whose handler never returns.
HangingIs(a) == Len(cs) = 2 /\ cs[a].handler = "hang"

\* C4 (as claimed): with the handler of check a never returning, the runner of
\* a leaves the wait of every cycle and starts later cycles, and the runner of
\* the other check b starts cycles and records results again and again.
C4_RunnersKeepGoing ==
    \A a \in {1, 2} : \A b \in {1, 2} \ {a} :
        [](HangingIs(a) =>
              /\ <>RunnerAt(a, "sleep")
              /\ <>RunnerAt(a, "wait")
              /\ <>RunnerAt(b, "wait")
              /\ <>Recording(b))

\* C5: from the return of Investigate until the first result of the check is
\* recorded, its bit is set, Healthy() is false, its healthy flag is false and
\* its message is "[n/a]".
C5_UnhealthyUntilFirstResult ==
    \A id \in Ids : recorded[id] = "none" =>
        /\ cs[id].pos \in status
        /\ ~Healthy
        /\ ~cs[id].healthy
        /\ cs[id].msg = "[n/a]"

C5_Witness ==
    \E id, j \in Ids :
        /\ recorded[id] = "none" /\ run[id] = "wait"
        /\ recorded[j] = "nil" /\ cs[j].healthy

\* C6 (as claimed): Investigate returns nil for the first 64 distinct names and
\* the threshold error from the 65th on (in SpecCap the k-th call registers name k).
C6_CapacityIsMessageLimit ==
    \A n \in DOMAIN inv :
        /\ inv[n].pc = "ok" => n <= MessageLimit
        /\ inv[n].pc = "err" => n > MessageLimit

\* C7: a step in which Investigate returns the threshold error leaves the
\* registry, every check state, the bitmask and the runners as they were.
C7_RejectChangesNothing ==
    [][(\E n \in DOMAIN inv : inv[n].pc # "err" /\ inv'[n].pc = "err")
          => UNCHANGED <<items, cs, status, run, gor, hcMu, recorded, conns>>]_vars

C7_Witness ==
    /\ \E n \in DOMAIN inv : inv[n].pc = "err"
    /\ Len(cs) = Threshold
    /\ \E id \in Ids : recorded[id] # "none"

\* The Investigate calls that have returned nil.
Registered == {n \in DOMAIN inv : inv[n].pc = "ok"}

\* C8: whatever the interleaving of the Investigate calls for distinct names
\* with each other, the runners and the readers, the N calls that have returned
\* nil made N check states with the positions 0..N-1, no two the same, and the
\* registry has exactly N entries, one per name.
C8_DensePositions ==
    LET N == Cardinality(Registered) IN
        /\ Len(cs) = N
        /\ LenItems(items) = N
        /\ DOMAIN items = Registered
        /\ {cs[id].pos : id \in Ids} = 0..(N - 1)
        /\ \A i, j \in Ids : i # j => cs[i].pos # cs[j].pos
        /\ \A n \in DOMAIN items : cs[items[n]].name = n

C8_Witness ==
    /\ Cardinality(Registered) = 2
    /\ {cs[id].pos : id \in Ids} = {0, 1}
    /\ \E id \in Ids : Live > 0 /\ recorded[id] # "none"
    /\ http.pc = "walk"

\* C9: a step of the record of check id changes no bit but that of the check
\* and no check state but that of the check.
C9_RecordFrame ==
    [][\A id \in Ids : (RecordUpdate(id) \/ RecordFields(id)) =>
          /\ \A b \in (0..(Width - 1)) \ {cs[id].pos} : (b \in status') <=> (b \in status)
          /\ Len(cs') = Len(cs)
          /\ \A j \in Ids \ {id} : cs'[j] = cs[j]]_vars

C9_Witness ==
    \E id, j \in Ids :
        /\ id # j
        /\ recorded[j] = "err" /\ cs[j].msg = "boom" /\ cs[j].pos \in status
        /\ recorded[id] = "nil" /\ cs[id].healthy /\ cs[id].pos \notin status

\* No record step is in progress.
NoRecordStep == \A id \in Ids : hcMu[id] # "rec"

\* C10: when no record step is in progress, the bit of every registered check
\* is set exactly if the result recorded last for it is an error or none is
\* recorded yet, and Healthy() is true exactly if no bit of the mask is set.
C10_BitMirrorsLastResult ==
    NoRecordStep =>
        /\ \A id \in Ids : (cs[id].pos \in status) <=> (recorded[id] \in {"err", "none"})
        /\ Healthy <=> (\A b \in 0..(Width - 1) : b \notin status)

C10_Witness ==
    /\ NoRecordStep
    /\ \E id, j \in Ids :
          /\ recorded[id] = "nil" /\ cs[id].pos \notin status
          /\ recorded[j] = "err" /\ cs[j].pos \in status
    /\ Live = 2

\* C11 (as claimed, its first part): once ctx is cancelled, no runner starts
\* another handler invocation.
C11_NoInvocationAfterCancel ==
    [][\A id \in Ids : ctxDone => ~StartCycle(id, TRUE)]_vars

\* The entries failing() would collect if it read every message in this state.
Snapshot ==
    [n \in {x \in DOMAIN items : Len(cs[items[x]].msg) > 0} |-> cs[items[n]].msg]

\* C12: what failing() has collected for the entries it has visited is what
\* their messages are now, and when it returns its mapping is exactly the
\* non-empty messages of the registry at that moment, whatever the runners do.
C12_FailingIsSnapshot ==
    http.pc = "walk" =>
        /\ \A n \in (DOMAIN items) \ http.todo :
              IF Len(cs[items[n]].msg) > 0
              THEN n \in DOMAIN http.errs /\ http.errs[n] = cs[items[n]].msg
              ELSE n \notin DOMAIN http.errs
        /\ http.todo = {} => http.errs = Snapshot

C12_Witness ==
    /\ http.pc = "walk" /\ http.todo = {}
    /\ Len(cs) = 2
    /\ \E n, m \in DOMAIN items :
          /\ http.errs = (n :> "boom")
          /\ cs[items[m]].msg = ""
          /\ \E k \in 1..Len(gor[items[n]]) : gor[items[n]][k].pc = "lock" /\ gor[items[n]][k].err = "nil"

\* C13: once a check has a recorded result and no record step is under way, its
\* state is what its Aspect made of the handler's result: a handler error that
\* the Aspect turns into nil is recorded healthy with an empty message, a nil
\* that the Aspect turns into an error is recorded failing with that error's
\* text, and without an Aspect the handler's own result is recorded.
C13_AspectDecides ==
    \A id \in Ids :
        (recorded[id] # "none" /\ hcMu[id] # "rec") =>
            /\ (cs[id].pos \in status) = ~cs[id].healthy
            /\ (cs[id].handler = "boom" /\ cs[id].aspect = "mask") =>
                  (cs[id].healthy /\ cs[id].msg = "")
            /\ (cs[id].handler = "ok" /\ cs[id].aspect = "fail") =>
                  (~cs[id].healthy /\ cs[id].msg = "aspect")
            /\ (cs[id].handler = "ok" /\ cs[id].aspect = "none") =>
                  (cs[id].healthy /\ cs[id].msg = "")
            /\ (cs[id].handler = "boom" /\ cs[id].aspect = "none") =>
                  (~cs[id].healthy /\ cs[id].msg = "boom")

C13_Witness ==
    /\ Len(cs) = 2
    /\ \A id \in Ids : recorded[id] # "none" /\ hcMu[id] # "rec"
    /\ \E i, j \in Ids :
          /\ cs[i].handler = "boom" /\ cs[i].aspect = "mask" /\ cs[i].healthy /\ cs[i].msg = ""
          /\ cs[j].handler = "ok" /\ cs[j].aspect = "fail" /\ cs[j].msg = "aspect"
    /\ http.pc = "walk" /\ http.todo = {} /\ \E n \in DOMAIN items : http.errs = (n :> "aspect")

\* C14 (as claimed): when a handler panics, its goroutine goes on to record a
\* failing result with a non-empty message, the check's runner keeps running and
\* every other runner is where it was.
C14_PanicIsRecorded ==
    [][\A id \in Ids :
          HandlerPanic(id) =>
              /\ \E k \in 1..Len(gor'[id]) :
                    gor'[id][k].pc = "lock" /\ gor'[id][k].err \notin {"nil", ""}
              /\ run' = run]_vars

\* C15 (as claimed): whoever holds the status lock holds no other lock taken
\* after it and is not about to take one: the Handler call, which holds the
\* status read lock, neither holds nor is acquiring the registry lock or a
\* per-check lock.
C15_StatusLockIsInnermost ==
    statusMu = "r" =>
        /\ checksMu # "r"
        /\ \A id \in Ids : hcMu[id] # "http"
        /\ ~(http.pc = "rlock" /\ ~Healthy)

\* The Handler call waits in failing() for the check lock of a record step that
\* waits for the status lock the Handler call holds.
HandlerAndRecordWait ==
    /\ http.pc = "walk"
    /\ statusMu = "r"
    /\ \E n \in http.todo :
          /\ hcMu[items[n]] = "rec"
          /\ \E k \in 1..Len(gor[items[n]]) : gor[items[n]][k].pc = "update"

\* The Handler call waits for the registry lock of an Investigate call that
\* waits for the status lock the Handler call holds.
HandlerAndInvestigateWait ==
    /\ http.pc = "rlock" /\ ~Healthy
    /\ statusMu = "r"
    /\ checksMu = "w"
    /\ \E n \in DOMAIN inv : inv[n].pc = "locked"

\* C16 (as claimed): no state is reached in which two of Investigate, Handler
\* and the record step wait for each other's locks.
C16_NoCircularWait == ~HandlerAndRecordWait /\ ~HandlerAndInvestigateWait

\* C17 (as claimed): the k-th successful Investigate call (counting from 0)
\* created the check state with bit position k, also when names repeat, so no
\* two check states with a runner share a position.
C17_PositionIsCallIndex ==
    /\ \A id \in Ids : cs[id].pos = id - 1
    /\ \A i, j \in Ids : (i # j /\ run[i] # "exit" /\ run[j] # "exit") => cs[i].pos # cs[j].pos

\* C19 (as claimed): whenever no record step is in progress, Healthy() is false
\* exactly if failing() would return a non-empty mapping, also after Investigate
\* calls with repeated names.
C19_HealthyIffNothingFailing ==
    NoRecordStep => (Healthy <=> Snapshot = <<>>)

\* C18 (as claimed): once the result of a cycle has been recorded, no goroutine
\* of an earlier cycle of the same check records its result any more.
C18_NoStaleRecord ==
    \A id \in Ids : \A k \in 1..Len(gor[id]) :
        ~(gor[id][k].late /\ gor[id][k].pc = "fields")

\* C20: in every step, a connection that Accept has in hand is returned closed
\* exactly if Healthy() is false at that moment and open otherwise, and no
\* connection returned by an earlier Accept is closed, changed or dropped,
\* whatever the health state has become.
C20_AcceptClosesIffUnhealthy ==
    [][/\ Len(conns') >= Len(conns)
       /\ \A i \in 1..Len(conns) :
             IF conns[i] = "accepted"
             THEN conns'[i] = "accepted" \/ conns'[i] = (IF Healthy THEN "open" ELSE "closed")
             ELSE conns'[i] = conns[i]]_vars

C20_Witness ==
    /\ conns = <<"closed", "open">>
    /\ ~Healthy
    /\ \E id \in Ids : recorded[id] = "err"

====
